---- MODULE Spec2Model ----
(***************************************************************************)
(* Secret Santa draw (main.py): the Person registry, the two solvers       *)
(* (brute_force_draw, dfs_draw / get_secret_santa), get_chain and the test *)
(* suite's validate.                                                       *)
(*                                                                         *)
(* A person is identified with its position in the iteration order of the  *)
(* `people` collection (1 is tuple(people)[0]); names are unique, so a     *)
(* name is identified with its person.                                     *)
(***************************************************************************)
EXTENDS Integers, Sequences, FiniteSets, TLC

\* Largest registry whose restrictions are enumerated exhaustively.
MaxPeople == 3

\* Person._secret_santa before any draw (main.py line 63).
None == 0

VARIABLES
    n,             \* len(people)
    restrictions,  \* Person.restrictions, per person, as a set of persons
    secret_santa,  \* Person._secret_santa, per person (None or a person)
    pc,            \* "idle", "dfs", "bf", "chain", "asserts", "raised", "done"
    op,            \* the top-level call in progress or just returned
    stack,         \* get_secret_santa's activation records, innermost last
    ret,           \* <<v>>: the innermost get_secret_santa call just returned v
    not_selected,  \* _brute_force_draw's not_selected list, as a set
    idx,           \* _brute_force_draw's position in `for p in people`
    retried,       \* brute_force_draw's while loop has gone round again
    drawn,         \* the ss values the current trial has chosen, in order
    chain,         \* get_chain's chain
    current,       \* get_chain's current
    retval,        \* what the top-level call returned to its caller
    before         \* secret_santa as it was when the top-level call started

vars == <<n, restrictions, secret_santa, pc, op, stack, ret, not_selected,
          idx, retried, drawn, chain, current, retval, before>>

People == 1..n

\* top = tuple(people)[0]
Top == 1

----------------------------------------------------------------------------
\* Registries.

\* get_people: restrictions = set(restrictions.split(';') + [name])
LoadedRegistries(k) ==
    {r \in [1..k -> SUBSET (1..k)] : \A p \in 1..k : p \in r[p]}

\* Person(name, restrictions=...) called directly: nothing adds the name
DirectRegistries(k) ==
    {r \in [1..k -> SUBSET (1..k)] : \A p \in 1..k : p \notin r[p]}

\* Person(name): restrictions defaults to the empty list
DefaultRegistry(k) == [p \in 1..k |-> {}]

\* test_main.py, two_groups (a list: a, b, c, d in this order)
TwoGroups == <<{1, 3, 4}, {2, 3, 4}, {1, 2, 3}, {1, 2, 4}>>

\* test_main.py, few_restrictions (a set: a..e, with any of them first)
FewRestrictions == <<{1, 2, 3}, {2}, {3, 4}, {4}, {2, 3, 5}>>

Swap(a, b) == [p \in DOMAIN FewRestrictions |-> IF p = a THEN b ELSE IF p = b THEN a ELSE p]

Relabel(r, f) ==
    [p \in DOMAIN r |->
        LET q == CHOOSE q \in DOMAIN r : f[q] = p IN {f[x] : x \in r[q]}]

Fixtures == {TwoGroups} \cup 
    {Relabel(FewRestrictions, Swap(Top, k)) : k \in DOMAIN FewRestrictions}

Registries ==
    UNION {LoadedRegistries(k) \cup DirectRegistries(k) : k \in 1..MaxPeople}
        \cup Fixtures

Unset(r) == [p \in DOMAIN r |-> None]

Init ==
    /\ restrictions \in Registries
    /\ n = Cardinality(DOMAIN restrictions)
    /\ secret_santa = Unset(restrictions)
    /\ pc = "idle"
    /\ op = "none"
    /\ stack = <<>>
    /\ ret = <<>>
    /\ not_selected = {}
    /\ idx = 0
    /\ retried = FALSE
    /\ drawn = <<>>
    /\ chain = <<>>
    /\ current = None
    /\ retval = "none"
    /\ before = Unset(restrictions)

----------------------------------------------------------------------------
\* dfs_draw and get_secret_santa.

Frame(cur, ns) == [current |-> cur, not_selected |-> ns, possibilities |-> {},
                   at |-> "enter"]

Depth == Len(stack)
Inner == stack[Depth]

\* Person.set_secret_santa
SetSecretSanta(p, ss) == secret_santa' = [secret_santa EXCEPT ![p] = ss]

\* (mutant) the base case without its check of top against the restrictions
AtBottomUnchecked(f) == f.not_selected = {}

\* if not not_selected and top.name not in current.restrictions
AtBottom(f) == f.not_selected = {} /\ Top \notin restrictions[f.current]

\* [i for i in not_selected if i.name not in current.restrictions]
Possibilities(f) == {i \in f.not_selected : i \notin restrictions[f.current]}

\* dfs_draw up to its call of get_secret_santa(top, top, people - {top})
DfsDraw ==
    /\ pc = "idle"
    /\ pc' = "dfs"
    /\ op' = "dfs_draw"
    /\ stack' = <<Frame(Top, People \ {Top})>>
    /\ ret' = <<>>
    /\ before' = secret_santa
    /\ UNCHANGED <<n, restrictions, secret_santa, not_selected, idx, retried, drawn, chain,
                   current, retval>>

\* the base case: current.set_secret_santa(top); return current
GetSecretSantaBottom ==
    /\ pc = "dfs" /\ Depth > 0 /\ Inner.at = "enter"
    /\ AtBottom(Inner)
    /\ SetSecretSanta(Inner.current, Top)
    /\ ret' = <<Inner.current>>
    /\ stack' = SubSeq(stack, 1, Depth - 1)
    /\ UNCHANGED <<n, restrictions, pc, op, not_selected, idx, retried, drawn, chain, current,
                   retval, before>>

\* possibilities = [...]; random.shuffle(possibilities): the order of the
\* for loop is any order, so the loop draws its next element from the set
GetSecretSantaShuffle ==
    /\ pc = "dfs" /\ Depth > 0 /\ Inner.at = "enter"
    /\ ~AtBottom(Inner)
    /\ stack' = [stack EXCEPT ![Depth] =
                    [@ EXCEPT !.possibilities = Possibilities(Inner),
                              !.at = "loop"]]
    /\ UNCHANGED <<n, restrictions, secret_santa, pc, op, ret, not_selected,
                   idx, retried, drawn, chain, current, retval, before>>

\* (mutant) the recursive call with current pointed at pers before it
GetSecretSantaRecurseTentative(pers) ==
    /\ pc = "dfs" /\ Depth > 0 /\ Inner.at = "loop"
    /\ pers \in Inner.possibilities
    /\ SetSecretSanta(Inner.current, pers)
    /\ stack' = Append(
            [stack EXCEPT ![Depth] =
                [@ EXCEPT !.possibilities = @ \ {pers}, !.at = "call"]],
            Frame(pers, Inner.not_selected \ {pers}))
    /\ UNCHANGED <<n, restrictions, pc, op, ret, not_selected, idx, retried,
                   drawn, chain, current, retval, before>>

\* for pers in possibilities: the recursive call
GetSecretSantaRecurse(pers) ==
    /\ pc = "dfs" /\ Depth > 0 /\ Inner.at = "loop"
    /\ pers \in Inner.possibilities
    /\ stack' = Append(
            [stack EXCEPT ![Depth] =
                [@ EXCEPT !.possibilities = @ \ {pers}, !.at = "call"]],
            Frame(pers, Inner.not_selected \ {pers}))
    /\ UNCHANGED <<n, restrictions, secret_santa, pc, op, ret, not_selected,
                   idx, retried, drawn, chain, current, retval, before>>

\* if secret_santa is not None: current.set_secret_santa(secret_santa);
\* return current
GetSecretSantaLink ==
    /\ pc = "dfs" /\ Depth > 0 /\ Inner.at = "call"
    /\ ret # <<>> /\ ret[1] # None
    /\ SetSecretSanta(Inner.current, ret[1])
    /\ ret' = <<Inner.current>>
    /\ stack' = SubSeq(stack, 1, Depth - 1)
    /\ UNCHANGED <<n, restrictions, pc, op, not_selected, idx, retried, drawn, chain, current,
                   retval, before>>

\* (mutant) the first possibility that fails ends the for loop
GetSecretSantaGivesUp ==
    /\ pc = "dfs" /\ Depth > 0 /\ Inner.at = "call"
    /\ ret = <<None>>
    /\ stack' = [stack EXCEPT ![Depth] =
                    [@ EXCEPT !.possibilities = {}, !.at = "loop"]]
    /\ ret' = <<>>
    /\ UNCHANGED <<n, restrictions, secret_santa, pc, op, not_selected, idx,
                   retried, drawn, chain, current, retval, before>>

\* the recursive call returned None: on to the next possibility
GetSecretSantaNext ==
    /\ pc = "dfs" /\ Depth > 0 /\ Inner.at = "call"
    /\ ret = <<None>>
    /\ stack' = [stack EXCEPT ![Depth] = [@ EXCEPT !.at = "loop"]]
    /\ ret' = <<>>
    /\ UNCHANGED <<n, restrictions, secret_santa, pc, op, not_selected, idx,
                   retried, drawn, chain, current, retval, before>>

\* the for loop is exhausted: return None
GetSecretSantaNone ==
    /\ pc = "dfs" /\ Depth > 0 /\ Inner.at = "loop"
    /\ Inner.possibilities = {}
    /\ ret' = <<None>>
    /\ stack' = SubSeq(stack, 1, Depth - 1)
    /\ UNCHANGED <<n, restrictions, secret_santa, pc, op, not_selected, idx,
                   retried, drawn, chain, current, retval, before>>

\* what dfs_draw returns once get_secret_santa(...) has returned found:
\* `return people`, whatever found is
DfsDrawResult(found) == "people"

DfsDrawReturn ==
    /\ pc = "dfs" /\ Depth = 0 /\ ret # <<>>
    /\ retval' = DfsDrawResult(ret[1])
    /\ pc' = "done"
    /\ UNCHANGED <<n, restrictions, secret_santa, op, stack, ret, not_selected,
                   idx, retried, drawn, chain, current, before>>

----------------------------------------------------------------------------
\* brute_force_draw and _brute_force_draw. `people` is iterated in the order
\* 1, 2, ..., n; idx is the person the for loop is at.

\* (mutant) the list is built once, before the first trial
PoolOfFirstTrial == IF pc = "idle" THEN People ELSE not_selected

\* not_selected = list(people)
FreshPool == People

\* if ss.name in {p.name} | set(p.restrictions)
Excluded(p, ss) == ss \in {p} \cup restrictions[p]

\* (mutant) the chosen person stays in the list
KeepInPool(pool, ss) == pool

\* not_selected.remove(ss)
Remove(pool, ss) == pool \ {ss}

\* brute_force_draw up to the first call of _brute_force_draw
BruteForceDraw ==
    /\ pc = "idle"
    /\ pc' = "bf"
    /\ op' = "brute_force_draw"
    /\ not_selected' = FreshPool
    /\ idx' = 1
    /\ retried' = FALSE
    /\ drawn' = <<>>
    /\ before' = secret_santa
    /\ UNCHANGED <<n, restrictions, secret_santa, stack, ret, chain, current,
                   retval>>

\* ss = random.choice(not_selected), and it is excluded: return False, and
\* brute_force_draw's while loop calls _brute_force_draw again
BfReject(ss) ==
    /\ pc = "bf" /\ idx <= n
    /\ ss \in not_selected
    /\ Excluded(idx, ss)
    /\ not_selected' = FreshPool
    /\ idx' = 1
    /\ retried' = TRUE
    /\ drawn' = <<>>
    /\ UNCHANGED <<n, restrictions, secret_santa, pc, op, stack, ret, chain,
                   current, retval, before>>

\* ss = random.choice(not_selected), and it is allowed:
\* p.set_secret_santa(ss); not_selected.remove(ss)
BfAssign(ss) ==
    /\ pc = "bf" /\ idx <= n
    /\ ss \in not_selected
    /\ ~Excluded(idx, ss)
    /\ SetSecretSanta(idx, ss)
    /\ not_selected' = Remove(not_selected, ss)
    /\ idx' = idx + 1
    /\ drawn' = Append(drawn, ss)
    /\ UNCHANGED <<n, restrictions, pc, op, stack, ret, retried, chain,
                   current, retval, before>>

\* the for loop is over: return True, and brute_force_draw returns people
BfReturn ==
    /\ pc = "bf" /\ idx > n
    /\ retval' = "people"
    /\ pc' = "done"
    /\ UNCHANGED <<n, restrictions, secret_santa, op, stack, ret, not_selected,
                   idx, retried, drawn, chain, current, before>>

----------------------------------------------------------------------------
\* get_chain, and the test suite's validate (which calls it).

\* the while loop is cut off once it has gone MaxSpin times round a cycle
\* that does not hold top
MaxSpin == 1

\* chain = []; top = tuple(people)[0]; current = top
GetChainCall(caller) ==
    /\ pc = "idle"
    /\ pc' = "chain"
    /\ op' = caller
    /\ chain' = <<>>
    /\ current' = Top
    /\ before' = secret_santa
    /\ UNCHANGED <<n, restrictions, secret_santa, stack, ret, not_selected,
                   idx, retried, drawn, retval>>

\* while current.secret_santa != top
Looping(cur) == secret_santa[cur] # Top

\* chain.append(current); current = current.secret_santa
GetChainStep ==
    /\ pc = "chain" /\ current # None
    /\ Looping(current)
    /\ Len(chain) < n * (MaxSpin + 1)
    /\ chain' = Append(chain, current)
    /\ current' = secret_santa[current]
    /\ UNCHANGED <<n, restrictions, secret_santa, pc, op, stack, ret,
                   not_selected, idx, retried, drawn, retval, before>>

\* current is None: current.secret_santa raises AttributeError
GetChainRaise ==
    /\ pc = "chain" /\ current = None
    /\ pc' = "raised"
    /\ retval' = "AttributeError"
    /\ UNCHANGED <<n, restrictions, secret_santa, op, stack, ret, not_selected,
                   idx, retried, drawn, chain, current, before>>

\* (mutant) the last person of the chain is not appended
ReturnedWithoutLast(ch, cur) == ch

\* the chain get_chain returns when its loop ends at cur: chain.append(current)
Returned(ch, cur) == Append(ch, cur)

\* the loop ends: chain.append(current); return chain
GetChainReturn ==
    /\ pc = "chain" /\ current # None
    /\ ~Looping(current)
    /\ chain' = Returned(chain, current)
    /\ pc' = IF op = "validate" THEN "asserts" ELSE "done"
    /\ retval' = IF op = "validate" THEN retval ELSE "chain"
    /\ UNCHANGED <<n, restrictions, secret_santa, op, stack, ret, not_selected,
                   idx, retried, drawn, current, before>>

Elements(ch) == {ch[i] : i \in 1..Len(ch)}

\* validate's three asserts on chain = get_chain(drafted), where drafted is
\* the collection `people` itself (the draw returns its argument)
Asserts(ch) ==
    \* assert len(set(chain)) == len(chain)
    /\ Cardinality(Elements(ch)) = Len(ch)
    \* assert len(drafted) == len(people)
    /\ Cardinality(People) = Cardinality(People)
    \* for i in chain: assert i.secret_santa.name not in i.restrictions
    /\ \A i \in Elements(ch) : secret_santa[i] \notin restrictions[i]

Validate ==
    /\ pc = "asserts"
    /\ retval' = IF Asserts(chain) THEN "passed" ELSE "AssertionError"
    /\ pc' = "done"
    /\ UNCHANGED <<n, restrictions, secret_santa, op, stack, ret, not_selected,
                   idx, retried, drawn, chain, current, before>>

\* a caller's p.set_secret_santa(q)
CallerSetsSecretSanta(p, q) ==
    /\ pc = "idle"
    /\ SetSecretSanta(p, q)
    /\ before' = secret_santa'
    /\ UNCHANGED <<n, restrictions, pc, op, stack, ret, not_selected, idx,
                   retried, drawn, chain, current, retval>>

\* the caller takes the result and goes on; the locals of the call are gone
Continue ==
    /\ pc = "done"
    /\ pc' = "idle"
    /\ op' = "none"
    /\ ret' = <<>>
    /\ not_selected' = {}
    /\ idx' = 0
    /\ retried' = FALSE
    /\ drawn' = <<>>
    /\ chain' = <<>>
    /\ current' = None
    /\ retval' = "none"
    /\ before' = secret_santa
    /\ UNCHANGED <<n, restrictions, secret_santa, stack>>

Next ==
    \/ DfsDraw
    \/ GetSecretSantaBottom
    \/ GetSecretSantaShuffle
    \/ \E pers \in People : GetSecretSantaRecurse(pers)
    \/ GetSecretSantaLink
    \/ GetSecretSantaNext
    \/ GetSecretSantaNone
    \/ DfsDrawReturn
    \/ BruteForceDraw
    \/ \E ss \in People : BfReject(ss)
    \/ \E ss \in People : BfAssign(ss)
    \/ BfReturn
    \/ \E caller \in {"get_chain", "validate"} : GetChainCall(caller)
    \/ GetChainStep
    \/ GetChainRaise
    \/ GetChainReturn
    \/ Validate
    \/ Continue

Spec == Init /\ [][Next]_vars

----------------------------------------------------------------------------
\* get_chain and validate over every recipient relation a caller can set up.

ChainRegistries == {DefaultRegistry(k) : k \in 1..MaxPeople} \cup Fixtures

InitChain ==
    /\ Init
    /\ restrictions \in ChainRegistries

NextChain ==
    \/ \E p \in People, q \in People \cup {None} : CallerSetsSecretSanta(p, q)
    \/ \E caller \in {"get_chain", "validate"} : GetChainCall(caller)
    \/ GetChainStep
    \/ GetChainRaise
    \/ GetChainReturn
    \/ Validate
    \/ Continue

SpecChain == InitChain /\ [][NextChain]_vars

----------------------------------------------------------------------------
\* brute_force_draw alone, under fair random.choice: a choice that is possible
\* again and again at the same point of a trial is made sooner or later.

\* Largest registry of the fair specification whose restrictions are
\* enumerated exhaustively (the fixtures are larger).
MaxFairPeople == 2

FairRegistries ==
    UNION {LoadedRegistries(k) : k \in 1..MaxFairPeople}
        \cup {TwoGroups, FewRestrictions}

Largest ==
    IF MaxFairPeople > Len(FewRestrictions) THEN MaxFairPeople
    ELSE Len(FewRestrictions)

InitFair ==
    /\ Init
    /\ restrictions \in FairRegistries

NextBf ==
    \/ BruteForceDraw
    \/ \E ss \in People : BfReject(ss)
    \/ \E ss \in People : BfAssign(ss)
    \/ BfReturn
    \/ Continue

RECURSIVE CanComplete(_, _)
\* the people from person i on can each be given a recipient out of pool
CanComplete(i, pool) ==
    \/ i > n
    \/ \E ss \in pool : ~Excluded(i, ss) /\ CanComplete(i + 1, pool \ {ss})

\* person i is given a recipient that leaves the trial able to succeed
GoodChoice(i) ==
    /\ idx = i
    /\ \E ss \in People : BfAssign(ss) /\ CanComplete(i + 1, not_selected \ {ss})

\* random.choice is uniform, so a choice that is possible again and again at
\* the same point of a trial is made sooner or later: strong fairness of each
\* (idx, not_selected, ss). That implies the fairness stated here, of the good
\* choices for each person, which is all the termination argument uses.
FairChoice == \A i \in 1..Largest : SF_vars(GoodChoice(i))

FairSpecBf == InitFair /\ [][NextBf]_vars /\ WF_vars(NextBf) /\ FairChoice

----------------------------------------------------------------------------
\* What the claims speak of.

RECURSIVE Iter(_, _, _)
\* f applied k times to p
Iter(f, p, k) == IF k = 0 THEN p ELSE f[Iter(f, p, k - 1)]

Permutation(f) ==
    /\ \A p \in People : f[p] \in People
    /\ \A p, q \in People : f[p] = f[q] => p = q

\* f is one cycle through all n people: from top it is back at top after
\* exactly n steps, never fewer
SingleCycle(f) ==
    /\ Permutation(f)
    /\ \A k \in 1..(n - 1) : Iter(f, Top, k) # Top
    /\ Iter(f, Top, n) = Top

\* nobody's recipient is in their exclusion set
Respects(f) == \A p \in People : f[p] \notin restrictions[p]

CycleExists == \E f \in [People -> People] : SingleCycle(f) /\ Respects(f)

\* some assignment of a recipient to everyone passes every check of a trial
PermutationExists == CanComplete(1, People)

SelfRestricted == \A p \in People : p \in restrictions[p]

Assigned(f) == \A p \in People : f[p] # None

DfsReturned == pc = "done" /\ op = "dfs_draw"
DfsSucceeded == DfsReturned /\ ret[1] # None
DfsFailed == DfsReturned /\ ret[1] = None
BfReturned == pc = "done" /\ op = "brute_force_draw"

\* the people on top's cycle
Orbit(f) == {Iter(f, Top, k) : k \in 0..(n - 1)}

----------------------------------------------------------------------------
\* C1: when the backtracking search of dfs_draw succeeds on a registry of at
\* least two people who each exclude themselves, whatever the recipients were
\* before, the recipients form one cycle through all the people and nobody's
\* recipient is in their exclusion set.
C1_BacktrackingSound ==
    (DfsSucceeded /\ n >= 2 /\ SelfRestricted)
        => SingleCycle(secret_santa) /\ Respects(secret_santa)

\* a successful search over three or more people that replaced the recipients
\* an earlier draw had left
C1_Witness ==
    /\ DfsSucceeded /\ n >= 3 /\ SelfRestricted
    /\ Assigned(before) /\ before # secret_santa

\* C2: if some exclusion-respecting cycle through all the people exists, the
\* backtracking search succeeds, whatever the shuffles.
C2_BacktrackingComplete == (DfsReturned /\ CycleExists) => ret[1] # None

\* a successful search on the few_restrictions fixture, where the first
\* person can be followed by people that lead to dead ends
C2_Witness ==
    /\ DfsSucceeded /\ CycleExists
    /\ restrictions \in Fixtures /\ n = Len(FewRestrictions)

\* C3 (as claimed): whenever brute_force_draw returns on two or more people,
\* the recipients form one cycle through all of them.
C3_RejectionSingleCycle == (BfReturned /\ n >= 2) => SingleCycle(secret_santa)

\* C4: when brute_force_draw returns, everybody's recipient is the one the
\* final trial chose, no two people have the same recipient, and nobody's
\* recipient is in their exclusion set.
C4_RejectionPostcondition ==
    BfReturned =>
        /\ Len(drawn) = n
        /\ \A p \in People : secret_santa[p] = drawn[p]
        /\ Permutation(secret_santa)
        /\ Respects(secret_santa)

\* a return after at least one failed trial, on three or more people
C4_Witness == BfReturned /\ retried /\ n >= 3

\* C5 (as claimed): after a successful solve by either solver nobody is their
\* own recipient.
C5_NoSelfAssignment ==
    (BfReturned \/ DfsSucceeded) => \A p \in People : secret_santa[p] # p

\* C6 (as claimed): when no exclusion-respecting cycle exists, dfs_draw does
\* not return what it returns for a solved registry.
C6_ReportsInfeasible == (DfsReturned /\ ~CycleExists) => retval # "people"

\* C7: brute_force_draw never returns when no exclusion-respecting
\* permutation exists, and under fair random choice it returns when one does.
C7_RejectionTermination ==
    /\ [](~PermutationExists => ~BfReturned)
    /\ (pc = "bf" /\ PermutationExists) ~> BfReturned

\* a return after at least one failed trial
C7_Witness == BfReturned /\ retried /\ PermutationExists /\ n >= 2

\* C8 (as claimed): validate passes only if the chain visits every person
\* exactly once and nobody's recipient is in their exclusion set.
C8_ValidateDetectsSubCycles ==
    (pc = "done" /\ op = "validate" /\ retval = "passed") =>
        /\ Len(chain) = n
        /\ Elements(chain) = People
        /\ Respects(secret_santa)

\* C9: on a permutation of the people, get_chain does not raise, ends within
\* n steps, changes no recipient, and returns top's cycle: it starts at top,
\* holds each person of the cycle once, each element is the recipient of the
\* one before, the first is the recipient of the last; its length is n exactly
\* when the permutation is one cycle.
C9_ChainExtraction ==
    (op = "get_chain" /\ Permutation(secret_santa)) =>
        /\ pc # "raised"
        /\ secret_santa = before
        /\ pc = "chain" =>
            /\ Len(chain) < n
            /\ ENABLED (GetChainStep \/ GetChainReturn)
        /\ pc = "done" =>
            /\ retval = "chain"
            /\ Elements(chain) = Orbit(secret_santa)
            /\ Cardinality(Elements(chain)) = Len(chain)
            /\ chain[1] = Top
            /\ \A i \in 2..Len(chain) : chain[i] = secret_santa[chain[i - 1]]
            /\ secret_santa[chain[Len(chain)]] = chain[1]
            /\ (Len(chain) = n) <=> SingleCycle(secret_santa)

\* the chain of a permutation of four or more people made of several cycles
C9_Witness ==
    /\ pc = "done" /\ op = "get_chain" /\ Permutation(secret_santa)
    /\ n >= 4 /\ Len(chain) = 2

\* C10: while a backtracking search has not closed the cycle, and when it has
\* ended in failure, every recipient is what it was before the call.
C10_FailedSearchChangesNothing ==
    (op = "dfs_draw" /\ (ret = <<>> \/ ret = <<None>>)) => secret_santa = before

\* a failed search that left the recipients of an earlier draw in place
C10_Witness == DfsFailed /\ Assigned(before) /\ n >= 4

====
